---- MODULE Spec2Model ----
(***************************************************************************)
(* waifu2x-go: the inference engine (NewWaifu2x, Exec, SaveImage) of the   *)
(* gonum/mat64 edition of waifu2x.go together with its own matrix          *)
(* helpers pad, calcConv, correlate, broadcastMat, broadcastVec and clip,  *)
(* and the main program that drives it.                                    *)
(*                                                                         *)
(* Numbers.  A float64 x is represented by the integer x * Scale (fixed    *)
(* point), Scale being 255 * 10^MaxLayers, so that the division by 255 of  *)
(* pad and the multiplication by 0.1 of the leaky rectifier are exact for  *)
(* every value the model computes.  Kernel weights and biases are integer  *)
(* valued reals, stored as plain integers.                                 *)
(*                                                                         *)
(* Matrices.  A *mat64.Dense is the record [r, c, v]: its row count, its   *)
(* column count and its row-major backing vector.  A pointer that may be   *)
(* nil is a sequence of length 0 (nil) or 1.                               *)
(***************************************************************************)
EXTENDS Integers, Sequences, FiniteSets

VARIABLES
    pc,          \* position of the main goroutine
    modelFile,   \* the model file on disk: [ok, net]
    imageFile,   \* the source image on disk: [ok, img]
    procs,       \* runtime.GOMAXPROCS: goroutines that may execute at once
    models,      \* w.models
    src,         \* w.src, <<>> when not loaded
    dst,         \* w.dst, <<>> when nil
    err,         \* the error NewWaifu2x returned, "nil" when none
    imageOpened, \* history: getImage was called
    c,           \* Exec: the luminance samples of the colour raster c
    planes,      \* Exec: planes
    l,           \* Exec: index of the layer being processed, 1-based
    i,           \* Exec: i of the output plane loop
    j,           \* Exec: j of the spawn loop
    k,           \* Exec: k of the receive loop
    oPlanes,     \* Exec: oPlanes
    partial,     \* Exec: partial, <<>> when nil
    resCh,       \* Exec: resCh: [id, cap, buf]
    tasks,       \* the convolution goroutines spawned and not yet finished
    got,         \* history: the input indices received for this output plane
    progress,    \* Exec: progress
    count,       \* Exec: count
    panicCause,  \* why the process panicked, "" when it did not
    fnArg,       \* the arguments of a helper called on its own
    fnRet,       \* its result
    fnPc         \* "idle", "pad", "correlate", "returned", "panicked"

vars == <<pc, modelFile, imageFile, procs, models, src, dst, err, imageOpened,
          c, planes, l, i, j, k, oPlanes, partial, resCh, tasks, got,
          progress, count, panicCause, fnArg, fnRet, fnPc>>

execVars == <<c, planes, l, i, j, k, oPlanes, partial, resCh, tasks, got,
              progress, count>>

fnVars == <<fnArg, fnRet, fnPc>>

(***************************************************************************)
(* Bounds of the model.                                                    *)
(***************************************************************************)
MaxLayers == 2      \* layers of a network
MaxPlanes == 2      \* length of bias, weight and weight[i]
MaxFnDim == 3       \* rows and columns of the matrices given to pad

(***************************************************************************)
(* Fixed-point representation of float64.                                  *)
(***************************************************************************)
RECURSIVE Pow10(_)
Pow10(n) == IF n = 0 THEN 1 ELSE 10 * Pow10(n - 1)

Scale == 255 * Pow10(MaxLayers)

Min(a, b) == IF a <= b THEN a ELSE b

\* float64(c.Y): an 8-bit sample as a float64
float64(y) == y * Scale

\* uint8(v): a float64 in [0, 255] truncated to an 8-bit sample
uint8(v) == v \div Scale

(***************************************************************************)
(* mat64.Dense                                                             *)
(***************************************************************************)
NewDense(rows, cols, vec) == [r |-> rows, c |-> cols, v |-> vec]

At(m, row, col) == m.v[row * m.c + col + 1]

Dims(m) == <<m.r, m.c>>

\* partial.Add(partial, p): element-wise sum
matAdd(a, b) == NewDense(a.r, a.c, [n \in 1..Len(a.v) |-> a.v[n] + b.v[n]])

(***************************************************************************)
(* Helper functions.  The second operand of mul is one of the two literal  *)
(* factors of the code, 255.0 and 0.1, given as a fraction; the second     *)
(* operand of add is a bias, an integer valued real.                       *)
(***************************************************************************)
Lit255 == [num |-> 255, den |-> 1]

LitTenth == [num |-> 1, den |-> 10]

mul(a, b) == (a * b.num) \div b.den

div(a, b) == a \div b

add(a, b) == a + b * Scale

maximum(a, b) == IF a >= b THEN a ELSE b

minimum(a, b) == IF a <= b THEN a ELSE b

(***************************************************************************)
(* pad: the three loops fill newVec row by row; the idx-th row written is  *)
(* the row of loop index i = idx as long as padding <= r.                  *)
(***************************************************************************)
padTopRow(im, padding) ==
    [n \in 1..(im.c + padding * 2) |->
        IF n - 1 < padding THEN div(At(im, 0, 0), 255)
        ELSE IF n - 1 >= im.c THEN div(At(im, 0, im.c - 1), 255)
        ELSE div(At(im, padding, n - 1), 255)]

padMidRow(im, padding, ii, row) ==
    [n \in 1..(im.c + padding * 2) |->
        IF n - 1 < padding THEN div(At(im, row, 0), 255)
        ELSE IF n - 1 >= im.c THEN div(At(im, row, im.c - 1), 255)
        ELSE div(At(im, ii, n - 1), 255)]

padBottomRow(im, padding) ==
    [n \in 1..(im.c + padding * 2) |->
        IF n - 1 < padding THEN div(At(im, im.r - 1, 0), 255)
        ELSE IF n - 1 >= im.c THEN div(At(im, im.r - 1, im.c - 1), 255)
        ELSE div(At(im, im.r - 1, n - 1), 255)]

\* pad panics: im.At(padding, j) is out of range in the first loop, or the
\* loops write more than newRows rows into newVec.
padPanics(im, padding) ==
    /\ padding >= 1
    /\ \/ padding >= im.r /\ padding < im.c
       \/ padding > im.r

pad(im, padding) ==
    LET newRows == im.r + padding * 2
        newCols == im.c + padding * 2
        rowOf(ii) == IF ii < padding THEN padTopRow(im, padding)
                     ELSE IF ii < im.r THEN padMidRow(im, padding, ii, ii - padding)
                     ELSE padBottomRow(im, padding)
        rows == [n \in 1..newRows |-> rowOf(n - 1)]
    IN  NewDense(newRows, newCols,
                 [n \in 1..(newRows * newCols) |->
                     rows[((n - 1) \div newCols) + 1][((n - 1) % newCols) + 1]])

(***************************************************************************)
(* calcConv and correlate.  f is the kernel, f[a][b] with a, b in 1..3     *)
(* standing for the code's f[a-1][b-1].                                    *)
(***************************************************************************)
calcConv(x, y, im, f) ==
      At(im, x - 1, y - 1) * f[1][1]
    + At(im, x, y - 1) * f[1][2]
    + At(im, x + 1, y - 1) * f[1][3]
    + At(im, x - 1, y) * f[2][1]
    + At(im, x, y) * f[2][2]
    + At(im, x + 1, y) * f[2][3]
    + At(im, x - 1, y + 1) * f[3][1]
    + At(im, x, y + 1) * f[3][2]
    + At(im, x + 1, y + 1) * f[3][3]

correlate(im, f) ==
    LET newRows == im.r - 2
        newCols == im.c - 2
    IN  NewDense(newRows, newCols,
                 [n \in 1..(newRows * newCols) |->
                     calcConv(((n - 1) \div newCols) + 1,
                              ((n - 1) % newCols) + 1, im, f)])

\* f(a, b) for the helper function named f
call(f, a, b) ==
    CASE f = "mul" -> mul(a, b)
      [] f = "add" -> add(a, b)
      [] f = "maximum" -> maximum(a, b)
      [] f = "minimum" -> minimum(a, b)

broadcastMat(mat, n, f) ==
    NewDense(mat.r, mat.c, [x \in 1..(mat.r * mat.c) |-> call(f, mat.v[x], n)])

broadcastVec(vec, n, f) == [x \in 1..Len(vec) |-> call(f, vec[x], n)]

clip(im, start, end) ==
    [x \in 1..(im.r * im.c) |->
        IF im.v[x] < start THEN start
        ELSE IF im.v[x] > end THEN end
        ELSE im.v[x]]

(***************************************************************************)
(* The files the program is started on.                                    *)
(*                                                                         *)
(* A network is a chain of layers of a common width (1 plane in, 1 plane   *)
(* out) in which one layer may have any lengths of bias, weight and        *)
(* weight[i] up to MaxPlanes.  The declared nInputPlane and nOutputPlane   *)
(* are MaxPlanes whatever the arrays hold.                                 *)
(***************************************************************************)
KernelTable ==
    << << <<0, 0, 0>>, <<0, 1, 0>>, <<0, 0, 0>> >>,
       << <<0, 1, 0>>, <<0, 0, 0>>, <<0, 0, 0>> >>,
       << <<0, 0, 0>>, <<0, -1, 0>>, <<0, 0, 1>> >> >>

KernelAt(n, m) == KernelTable[((n + m - 2) % Len(KernelTable)) + 1]

BiasAt(n) == (n % 3) - 1

Model(nb, nw, g) ==
    [Weight |-> [n \in 1..nw |-> [m \in 1..g |-> KernelAt(n, m)]],
     NOutputPlane |-> MaxPlanes,
     KW |-> 3,
     KH |-> 3,
     Bias |-> [n \in 1..nb |-> BiasAt(n)],
     NInputPlane |-> MaxPlanes]

ModelShapes ==
    {Model(nb, nw, IF nw = 0 THEN 0 ELSE g) :
        nb \in 0..MaxPlanes, nw \in 0..MaxPlanes, g \in 0..MaxPlanes}

Chain(len, width, d, odd) ==
    [n \in 1..len |->
        IF n = d THEN odd
        ELSE Model(IF n = len THEN 1 ELSE width,
                   IF n = len THEN 1 ELSE width,
                   IF n = 1 THEN 1 ELSE width)]

Networks ==
    {<<>>} \cup
    {Chain(len, width, d, odd) :
        len \in 1..MaxLayers, width \in 1..MaxPlanes,
        d \in 1..MaxLayers, odd \in ModelShapes}

ImageDims == {<<1, 1>>, <<1, 2>>, <<2, 1>>}

ImageBases == {15, 200}

Image(h, w, base) ==
    NewDense(h, w, [n \in 1..(h * w) |-> (base + 60 * (n - 1)) % 256])

Images == {Image(d[1], d[2], base) : d \in ImageDims, base \in ImageBases}

NoImage == NewDense(0, 0, <<>>)

ModelFiles ==
    {[state |-> "ok", net |-> n] : n \in Networks} \cup
    {[state |-> s, net |-> <<>>] : s \in {"missing", "malformed"}}

ImageFiles ==
    {[state |-> "ok", img |-> m] : m \in Images} \cup
    {[state |-> s, img |-> NoImage] : s \in {"missing", "undecodable"}}

(***************************************************************************)
(* main: the -c option and runtime.GOMAXPROCS                              *)
(***************************************************************************)
CPUOptions == {0, 1, 2, 3}

Machines == {1, 2}

GOMAXPROCS(numCPU, cpus) ==
    IF numCPU # 0
    THEN (IF numCPU > cpus THEN cpus ELSE numCPU)
    ELSE cpus

(***************************************************************************)
(* NewWaifu2x, loadModel, getImage                                         *)
(***************************************************************************)
loadModel(file) ==
    IF file.state = "missing" THEN [err |-> "ReadFile", models |-> <<>>]
    ELSE IF file.state = "malformed" THEN [err |-> "Unmarshal", models |-> <<>>]
    ELSE [err |-> "nil", models |-> file.net]

\* resize.Resize(2x, 2y, img, resize.NearestNeighbor)
Resize(img) ==
    NewDense(img.r * 2, img.c * 2,
             [n \in 1..(img.r * 2 * img.c * 2) |->
                 At(img, ((n - 1) \div (img.c * 2)) \div 2,
                         ((n - 1) % (img.c * 2)) \div 2)])

getImage(file) ==
    IF file.state = "missing" THEN [err |-> "Open", src |-> <<>>]
    ELSE IF file.state = "undecodable" THEN [err |-> "Decode", src |-> <<>>]
    ELSE [err |-> "nil", src |-> <<Resize(file.img)>>]

\* a constructor that drops the error of getImage
NewWaifu2xIgnoringImage(mFile, iFile) ==
    LET lm == loadModel(mFile)
        gi == getImage(iFile)
    IN  IF lm.err # "nil"
        THEN [w |-> <<>>, err |-> lm.err, opened |-> FALSE]
        ELSE [w |-> <<[models |-> lm.models,
                       src |-> IF gi.err = "nil" THEN gi.src ELSE <<NoImage>>]>>,
              err |-> "nil", opened |-> TRUE]

\* The result of NewWaifu2x(modelPath, inputImgPath): w is <<>> for nil.
NewWaifu2x(mFile, iFile) ==
    LET lm == loadModel(mFile)
        gi == getImage(iFile)
    IN  IF lm.err # "nil"
        THEN [w |-> <<>>, err |-> lm.err, opened |-> FALSE]
        ELSE IF gi.err # "nil"
        THEN [w |-> <<>>, err |-> gi.err, opened |-> TRUE]
        ELSE [w |-> <<[models |-> lm.models, src |-> gi.src]>>,
              err |-> "nil", opened |-> TRUE]

(***************************************************************************)
(* Exec: the quantities its statements compute                             *)
(***************************************************************************)
\* convertYCbCr: the luminance of every pixel, row-major
convertYCbCr(img) == img.v

extY(cl) == [n \in 1..Len(cl) |-> float64(cl[n])]

\* a pad radius one too large
padRadiusOff(ms) == Len(ms) + 1

padRadius(ms) == Len(ms)

totalCount(ms, n) ==
    LET RECURSIVE sum(_)
        sum(x) == IF x = 0 THEN 0
                  ELSE sum(x - 1) + ms[x].NInputPlane * ms[x].NOutputPlane
    IN  sum(n)

\* fi := min(len(m.Bias), len(m.Weight))
fi(m) == Min(Len(m.Bias), Len(m.Weight))

\* fj := min(len(planes), len(wgt))
fj(pl, wgt) == Min(Len(pl), Len(wgt))

\* a receive loop that stops one result early
recvLoopCondShort(kk, n) == kk < n - 1

\* a receive loop that waits for one result too many
recvLoopCondLong(kk, n) == kk <= n

\* the condition of the receive loop: k < fj
recvLoopCond(kk, n) == kk < n

\* an accumulation that keeps only the last result received
accumulateLast(part, p) == <<p>>

\* partial after one more result p has been received
accumulate(part, p) ==
    IF part = <<>> THEN <<p>> ELSE <<matAdd(part[1], p)>>

\* the leaky rectifier of the layer's end
leakyReLU(v) ==
    LET max == broadcastMat(v, 0, "maximum")
        min == broadcastMat(v, 0, "minimum")
        part == broadcastMat(min, LitTenth, "mul")
    IN  matAdd(max, part)

\* a check that only rejects an empty plane set
assertFailsOnlyEmpty(pl) == Len(pl) = 0

\* the condition of the plane-count check after the layers
assertFails(pl) == Len(pl) # 1

NoChannel == [id |-> <<0, 0>>, cap |-> 0, buf |-> <<>>]

Running == {t \in tasks : t.st = "running"}

(***************************************************************************)
(* The initial state: the files are on disk, main has parsed its options   *)
(* and set GOMAXPROCS.                                                     *)
(***************************************************************************)
ExecIdle ==
    /\ c = <<>>
    /\ planes = <<>>
    /\ l = 0
    /\ i = 0
    /\ j = 0
    /\ k = 0
    /\ oPlanes = <<>>
    /\ partial = <<>>
    /\ resCh = NoChannel
    /\ tasks = {}
    /\ got = <<>>
    /\ progress = 0
    /\ count = 0

Init ==
    /\ pc = "main"
    /\ modelFile \in ModelFiles
    /\ imageFile \in ImageFiles
    /\ procs \in {GOMAXPROCS(n, cpus) : n \in CPUOptions, cpus \in Machines}
    /\ models = <<>>
    /\ src = <<>>
    /\ dst = <<>>
    /\ err = "nil"
    /\ imageOpened = FALSE
    /\ ExecIdle
    /\ panicCause = ""
    /\ fnArg = <<>>
    /\ fnRet = <<>>
    /\ fnPc = "idle"

(***************************************************************************)
(* main                                                                    *)
(***************************************************************************)
\* w, err := waifu2x.NewWaifu2x(...); if err != nil { panic(err) }
MainNewWaifu2x ==
    /\ pc = "main"
    /\ LET res == NewWaifu2x(modelFile, imageFile)
       IN  /\ err' = res.err
           /\ imageOpened' = res.opened
           /\ IF res.err # "nil"
              THEN /\ pc' = "panicked"
                   /\ panicCause' = "NewWaifu2x"
                   /\ UNCHANGED <<models, src>>
              ELSE /\ pc' = "Exec"
                   /\ models' = res.w[1].models
                   /\ src' = res.w[1].src
                   /\ UNCHANGED panicCause
    /\ UNCHANGED <<modelFile, imageFile, procs, dst>>
    /\ UNCHANGED execVars
    /\ UNCHANGED fnVars

(***************************************************************************)
(* Exec, the main goroutine                                                *)
(***************************************************************************)
\* c, m, padded, planes, progress, count
ExecPad ==
    /\ pc = "Exec"
    /\ LET cl == convertYCbCr(src[1])
           m == NewDense(src[1].r, src[1].c, extY(cl))
       IN  IF padPanics(m, padRadius(models))
           THEN /\ pc' = "panicked"
                /\ panicCause' = "pad"
                /\ UNCHANGED execVars
           ELSE /\ pc' = "layer"
                /\ c' = cl
                /\ planes' = <<pad(m, padRadius(models))>>
                /\ progress' = 0
                /\ count' = totalCount(models, Len(models))
                /\ l' = 1
                /\ UNCHANGED <<i, j, k, oPlanes, partial, resCh, tasks, got,
                               panicCause>>
    /\ UNCHANGED <<modelFile, imageFile, procs, models, src, dst, err,
                   imageOpened>>
    /\ UNCHANGED fnVars

\* for _, m := range w.models { fi := ...; var oPlanes
LayerBegin ==
    /\ pc = "layer"
    /\ IF l <= Len(models)
       THEN /\ pc' = "output"
            /\ oPlanes' = <<>>
            /\ i' = 0
       ELSE /\ pc' = "assert"
            /\ UNCHANGED <<oPlanes, i>>
    /\ UNCHANGED <<modelFile, imageFile, procs, models, src, dst, err,
                   imageOpened, c, planes, l, j, k, partial, resCh, tasks, got,
                   progress, count, panicCause>>
    /\ UNCHANGED fnVars

\* for i := 0; i < fi; i++ { var partial; b; wgt; fj; resCh := make(chan, fj)
OutputBegin ==
    /\ pc = "output"
    /\ i < fi(models[l])
    /\ LET n == fj(planes, models[l].Weight[i + 1])
       IN  /\ resCh' = [id |-> <<l, i>>, cap |-> n, buf |-> <<>>]
           /\ pc' = IF 0 < n THEN "spawn" ELSE "recv"
    /\ partial' = <<>>
    /\ j' = 0
    /\ k' = 0
    /\ got' = <<>>
    /\ UNCHANGED <<modelFile, imageFile, procs, models, src, dst, err,
                   imageOpened, c, planes, l, i, oPlanes, tasks, progress,
                   count, panicCause>>
    /\ UNCHANGED fnVars

\* for j := 0; j < fj; j++ { go func(plane, kernel, resCh) {...}(&planes[j], wgt[j], resCh) }
Spawn ==
    /\ pc = "spawn"
    /\ tasks' = tasks \cup
           {[l |-> l, i |-> i, j |-> j, ch |-> resCh.id,
             plane |-> planes[j + 1],
             kernel |-> models[l].Weight[i + 1][j + 1],
             st |-> "ready"]}
    /\ j' = j + 1
    /\ pc' = IF j + 1 < resCh.cap THEN "spawn" ELSE "recv"
    /\ UNCHANGED <<modelFile, imageFile, procs, models, src, dst, err,
                   imageOpened, c, planes, l, i, k, oPlanes, partial, resCh,
                   got, progress, count, panicCause>>
    /\ UNCHANGED fnVars

\* for k := 0; k < fj; k++ { p := <-resCh; partial = p or partial.Add; progress++ }
Recv ==
    /\ pc = "recv"
    /\ recvLoopCond(k, resCh.cap)
    /\ Len(resCh.buf) > 0
    /\ LET p == Head(resCh.buf)
       IN  /\ partial' = accumulate(partial, p.m)
           /\ got' = Append(got, p.from)
    /\ resCh' = [resCh EXCEPT !.buf = Tail(@)]
    /\ k' = k + 1
    /\ progress' = progress + 1
    /\ UNCHANGED <<modelFile, imageFile, procs, models, src, dst, err,
                   imageOpened, c, planes, l, i, j, oPlanes, tasks, count,
                   pc, panicCause>>
    /\ UNCHANGED fnVars

\* partial = w.broadcastMat(partial, b, add); oPlanes = append(oPlanes, *partial)
Reduce ==
    /\ pc = "recv"
    /\ ~recvLoopCond(k, resCh.cap)
    /\ IF partial = <<>>
       THEN /\ pc' = "panicked"
            /\ panicCause' = "nil partial"
            /\ UNCHANGED <<oPlanes, i>>
       ELSE /\ oPlanes' = Append(oPlanes,
                   broadcastMat(partial[1], models[l].Bias[i + 1], "add"))
            /\ i' = i + 1
            /\ pc' = "output"
            /\ UNCHANGED panicCause
    /\ UNCHANGED <<modelFile, imageFile, procs, models, src, dst, err,
                   imageOpened, c, planes, l, j, k, partial, resCh, tasks, got,
                   progress, count>>
    /\ UNCHANGED fnVars

\* planes = make(..., len(oPlanes)); for i, v := range oPlanes { planes[i] = ... }
LeakyReLU ==
    /\ pc = "output"
    /\ ~(i < fi(models[l]))
    /\ planes' = [n \in 1..Len(oPlanes) |-> leakyReLU(oPlanes[n])]
    /\ l' = l + 1
    /\ pc' = "layer"
    /\ UNCHANGED <<modelFile, imageFile, procs, models, src, dst, err,
                   imageOpened, c, i, j, k, oPlanes, partial, resCh, tasks, got,
                   progress, count, panicCause>>
    /\ UNCHANGED fnVars

\* if len(planes) != 1 { fmt.Println("error"); os.Exit(1) }
AssertOnePlane ==
    /\ pc = "assert"
    /\ pc' = IF assertFails(planes) THEN "exit1" ELSE "clip"
    /\ UNCHANGED <<modelFile, imageFile, procs, models, src, dst, err,
                   imageOpened, panicCause>>
    /\ UNCHANGED execVars
    /\ UNCHANGED fnVars

\* vec := clip; broadcastVec; c[i].Y = uint8(v); w.dst = ...
Clip ==
    /\ pc = "clip"
    /\ LET vec == broadcastVec(clip(planes[1], 0, Scale), Lit255, "mul")
       IN  IF Len(vec) > Len(c)
           THEN /\ pc' = "panicked"
                /\ panicCause' = "index out of range"
                /\ UNCHANGED <<c, dst>>
           ELSE /\ c' = [n \in 1..Len(c) |->
                            IF n <= Len(vec) THEN uint8(vec[n]) ELSE c[n]]
                /\ dst' = <<NewDense(src[1].r, src[1].c, c')>>
                /\ pc' = "done"
                /\ UNCHANGED panicCause
    /\ UNCHANGED <<modelFile, imageFile, procs, models, src, err, imageOpened,
                   planes, l, i, j, k, oPlanes, partial, resCh, tasks, got,
                   progress, count>>
    /\ UNCHANGED fnVars

\* if err = w.SaveImage(optImageName); err != nil { panic(err) }
SaveImage ==
    /\ pc = "done"
    /\ \E created \in BOOLEAN :
          IF created
          THEN pc' = "exit0" /\ UNCHANGED panicCause
          ELSE pc' = "panicked" /\ panicCause' = "SaveImage"
    /\ UNCHANGED <<modelFile, imageFile, procs, models, src, dst, err,
                   imageOpened>>
    /\ UNCHANGED execVars
    /\ UNCHANGED fnVars

(***************************************************************************)
(* The convolution goroutines.  A goroutine that has started occupies one  *)
(* of the procs processors until it has sent its result.                   *)
(***************************************************************************)
Alive == pc \notin {"panicked", "exit0", "exit1"}

TaskStart(t) ==
    /\ Alive
    /\ t \in tasks
    /\ t.st = "ready"
    /\ Cardinality(Running) < procs
    /\ tasks' = (tasks \ {t}) \cup {[t EXCEPT !.st = "running"]}
    /\ UNCHANGED <<pc, modelFile, imageFile, procs, models, src, dst, err,
                   imageOpened, c, planes, l, i, j, k, oPlanes, partial, resCh,
                   got, progress, count, panicCause>>
    /\ UNCHANGED fnVars

\* resCh <- w.correlate(plane, kernel)
TaskSend(t) ==
    /\ Alive
    /\ t \in tasks
    /\ t.st = "running"
    /\ IF t.ch = resCh.id
       THEN /\ Len(resCh.buf) < resCh.cap
            /\ resCh' = [resCh EXCEPT !.buf =
                   Append(@, [from |-> t.j, m |-> correlate(t.plane, t.kernel)])]
       ELSE UNCHANGED resCh
    /\ tasks' = tasks \ {t}
    /\ UNCHANGED <<pc, modelFile, imageFile, procs, models, src, dst, err,
                   imageOpened, c, planes, l, i, j, k, oPlanes, partial, got,
                   progress, count, panicCause>>
    /\ UNCHANGED fnVars

Coordinator ==
    \/ MainNewWaifu2x
    \/ ExecPad
    \/ LayerBegin
    \/ OutputBegin
    \/ Spawn
    \/ Recv
    \/ Reduce
    \/ LeakyReLU
    \/ AssertOnePlane
    \/ Clip
    \/ SaveImage

Next ==
    \/ Coordinator
    \/ \E t \in tasks : TaskStart(t)
    \/ \E t \in tasks : TaskSend(t)

Spec == Init /\ [][Next]_vars

FairSpec ==
    /\ Init
    /\ [][Next]_vars
    /\ WF_vars(Coordinator)
    /\ \A jj \in 0..(MaxPlanes + 1) :
          /\ WF_vars(\E t \in tasks : t.j = jj /\ TaskStart(t))
          /\ WF_vars(\E t \in tasks : t.j = jj /\ TaskSend(t))

(***************************************************************************)
(* pad and correlate called on their own, on matrices of distinct values.  *)
(***************************************************************************)
FnBases == {1, 100}

Distinct(rows, cols, base) ==
    NewDense(rows, cols, [n \in 1..(rows * cols) |-> float64(base + n)])

PadArgs ==
    {[fn |-> "pad", im |-> Distinct(rows, cols, base), padding |-> p,
      f |-> KernelTable[1]] :
        rows \in 1..MaxFnDim, cols \in 1..MaxFnDim, base \in FnBases,
        p \in 0..MaxLayers}

CorrelateArgs ==
    {[fn |-> "correlate", im |-> Distinct(rows, cols, base), padding |-> 0,
      f |-> KernelTable[n]] :
        rows \in 3..(MaxFnDim + 1), cols \in 3..(MaxFnDim + 1),
        base \in FnBases, n \in 1..Len(KernelTable)}

FnInit ==
    /\ pc = "helper"
    /\ modelFile = [state |-> "missing", net |-> <<>>]
    /\ imageFile = [state |-> "missing", img |-> NoImage]
    /\ procs = 1
    /\ models = <<>>
    /\ src = <<>>
    /\ dst = <<>>
    /\ err = "nil"
    /\ imageOpened = FALSE
    /\ ExecIdle
    /\ panicCause = ""
    /\ fnArg \in PadArgs \cup CorrelateArgs
    /\ fnRet = <<>>
    /\ fnPc = "idle"

CallPad ==
    /\ fnPc = "idle"
    /\ fnArg.fn = "pad"
    /\ IF padPanics(fnArg.im, fnArg.padding)
       THEN fnPc' = "panicked" /\ UNCHANGED fnRet
       ELSE fnPc' = "returned" /\ fnRet' = <<pad(fnArg.im, fnArg.padding)>>
    /\ UNCHANGED <<pc, modelFile, imageFile, procs, models, src, dst, err,
                   imageOpened, panicCause, fnArg>>
    /\ UNCHANGED execVars

CallCorrelate ==
    /\ fnPc = "idle"
    /\ fnArg.fn = "correlate"
    /\ fnPc' = "returned"
    /\ fnRet' = <<correlate(fnArg.im, fnArg.f)>>
    /\ UNCHANGED <<pc, modelFile, imageFile, procs, models, src, dst, err,
                   imageOpened, panicCause, fnArg>>
    /\ UNCHANGED execVars

FnNext ==
    \/ CallPad
    \/ CallCorrelate

FnSpec == FnInit /\ [][FnNext]_vars

(***************************************************************************)
(* What the claims compare the program with.                               *)
(***************************************************************************)
Clamp(x, lo, hi) == IF x < lo THEN lo ELSE IF x > hi THEN hi ELSE x

\* edge-replicate padding with normalisation: every cell is the nearest
\* source cell divided by 255
EdgeReplicate(im, p) ==
    NewDense(im.r + 2 * p, im.c + 2 * p,
        [n \in 1..((im.r + 2 * p) * (im.c + 2 * p)) |->
            At(im, Clamp(((n - 1) \div (im.c + 2 * p)) - p, 0, im.r - 1),
                   Clamp(((n - 1) % (im.c + 2 * p)) - p, 0, im.c - 1)) \div 255])

\* valid 3x3 correlation, kernel rows on input rows, kernel columns on input
\* columns: cell (i, j) is the sum of input[i+a][j+b] * K[a][b]
ValidCorrelation(im, K) ==
    NewDense(im.r - 2, im.c - 2,
        [n \in 1..((im.r - 2) * (im.c - 2)) |->
            LET ii == (n - 1) \div (im.c - 2)
                jj == (n - 1) % (im.c - 2)
                RECURSIVE term(_)
                term(x) ==
                    IF x = 0 THEN 0
                    ELSE term(x - 1)
                         + At(im, ii + ((x - 1) \div 3), jj + ((x - 1) % 3))
                           * K[((x - 1) \div 3) + 1][((x - 1) % 3) + 1]
            IN  term(9)])

RECURSIVE SumInOrder(_, _)
SumInOrder(ms, n) ==
    IF n = 1 THEN ms[1] ELSE matAdd(SumInOrder(ms, n - 1), ms[n])

\* bias[n] plus the sum, in input-index order, of the correlations of the
\* first min(len(pl), len(weight[n])) planes
RefPlane(pl, m, n) ==
    LET cnt == Min(Len(pl), Len(m.Weight[n]))
        convs == [x \in 1..cnt |-> correlate(pl[x], m.Weight[n][x])]
    IN  broadcastMat(SumInOrder(convs, cnt), m.Bias[n], "add")

RefLayer(pl, m) ==
    [n \in 1..Min(Len(m.Bias), Len(m.Weight)) |-> leakyReLU(RefPlane(pl, m, n))]

RECURSIVE RefPlanes(_, _, _)
RefPlanes(pl, ms, n) ==
    IF n = 0 THEN pl ELSE RefLayer(RefPlanes(pl, ms, n - 1), ms[n])

RefFinalPlanes ==
    RefPlanes(<<pad(NewDense(src[1].r, src[1].c, extY(convertYCbCr(src[1]))),
                    Len(models))>>,
              models, Len(models))

Quantize(vec) ==
    [n \in 1..Len(vec) |-> (Clamp(vec[n], 0, Scale) * 255) \div Scale]

RefOutput == Quantize(RefFinalPlanes[1].v)

InLayers == pc \in {"layer", "output", "spawn", "recv"}

AfterLayers == pc \in {"assert", "clip", "done", "exit0", "exit1"}

(***************************************************************************)
(* C1.  Shape invariant: a network of L layers applied to an H x W         *)
(* luminance input padded by L leaves planes of H x W: every plane has     *)
(* H + 2 * (layers still to apply) rows and W + 2 * (layers still to       *)
(* apply) columns, so the final plane aligns with the source pixels.       *)
(***************************************************************************)
C1_ShapeInvariant ==
    /\ InLayers =>
          \A n \in 1..Len(planes) :
             Dims(planes[n]) = <<src[1].r + 2 * (Len(models) - (l - 1)),
                                 src[1].c + 2 * (Len(models) - (l - 1))>>
    /\ AfterLayers =>
          \A n \in 1..Len(planes) :
             /\ Dims(planes[n]) = <<src[1].r, src[1].c>>
             /\ Len(planes[n].v) = Len(convertYCbCr(src[1]))

C1_Witness ==
    /\ pc = "clip"
    /\ Len(models) >= 2
    /\ src[1].r # src[1].c
    /\ Dims(planes[1]) = <<src[1].r, src[1].c>>

(***************************************************************************)
(* C2.  Truncation policy: whatever the lengths of bias, weight and        *)
(* weight[i], Exec does not fail, a layer yields exactly                   *)
(* min(len(bias), len(weight)) output planes and output plane i is reduced *)
(* over exactly min(len(planes), len(weight[i])) input planes.             *)
(***************************************************************************)
C2_TruncationNeverFails ==
    /\ panicCause # "nil partial"
    /\ (pc = "output" /\ ~(i < fi(models[l]))) =>
          Len(oPlanes) = Min(Len(models[l].Bias), Len(models[l].Weight))
    /\ (pc = "recv" /\ ~recvLoopCond(k, resCh.cap)) =>
          Len(got) = Min(Len(planes), Len(models[l].Weight[i + 1]))

(***************************************************************************)
(* C3.  Plane-count check: with a plane count other than one after the     *)
(* layers, Exec exits with status 1 before it clips, changes a luminance   *)
(* sample or assigns the destination image; with exactly one plane it goes *)
(* on to clip, rescale and assemble.  No result is built from 0 or from    *)
(* more than 1 plane.                                                      *)
(***************************************************************************)
C3_PlaneCountCheck ==
    /\ [][(pc = "assert" /\ Len(planes) # 1) =>
             (pc' = "exit1" /\ c' = c /\ dst' = dst)]_vars
    /\ [][(pc = "assert" /\ Len(planes) = 1) => pc' = "clip"]_vars
    /\ [](pc \in {"clip", "done", "exit0"} => Len(planes) = 1)
    /\ [](dst # <<>> => Len(planes) = 1)
    /\ [](pc = "exit1" =>
             /\ Len(planes) # 1
             /\ dst = <<>>
             /\ c = convertYCbCr(src[1]))

C3_Witness == pc = "exit1" /\ Len(planes) > 1 /\ dst = <<>>

(***************************************************************************)
(* C4.  Determinism under scheduling: whatever the order in which the      *)
(* convolution results arrive and whatever GOMAXPROCS is, the final plane  *)
(* and the luminance written to the destination are those obtained by      *)
(* summing the partial results in input-index order.                       *)
(***************************************************************************)
C4_Deterministic ==
    /\ pc \in {"clip", "done", "exit0"} => planes = RefFinalPlanes
    /\ pc \in {"done", "exit0"} => dst[1].v = RefOutput

C4_Witness ==
    /\ pc = "done"
    /\ got = <<1, 0>>
    /\ procs >= 2
    /\ dst[1].v = RefOutput

(***************************************************************************)
(* C5.  Edge-replicate padding: pad of an R x C source by p returns the    *)
(* (R + 2p) x (C + 2p) matrix whose every cell is the nearest source cell  *)
(* divided by 255: the source itself inside, the source corners in the     *)
(* corner blocks, the nearest boundary value along the borders.            *)
(***************************************************************************)
C5_PadEdgeReplicates ==
    fnArg.fn = "pad" =>
       /\ fnPc # "panicked"
       /\ fnPc = "returned" => fnRet[1] = EdgeReplicate(fnArg.im, fnArg.padding)

(***************************************************************************)
(* C6.  Valid 3x3 correlation: correlate of an R x C input returns the     *)
(* (R - 2) x (C - 2) matrix whose cell (i, j) is the sum over a, b in 0..2 *)
(* of input[i+a][j+b] * K[a][b].                                           *)
(***************************************************************************)
C6_ValidCorrelation ==
    (fnArg.fn = "correlate" /\ fnPc = "returned") =>
       fnRet[1] = ValidCorrelation(fnArg.im, fnArg.f)

(***************************************************************************)
(* C7.  Configuration errors stop the run: NewWaifu2x returns a nil engine *)
(* and an error when the model or the image cannot be loaded, a model      *)
(* failure is reported without opening the image, and Exec and SaveImage   *)
(* only ever run on an engine whose model and image were both loaded.      *)
(***************************************************************************)
C7_ConfigurationErrors ==
    /\ pc # "main" =>
          /\ (err = "nil") <=> (modelFile.state = "ok" /\ imageFile.state = "ok")
          /\ modelFile.state # "ok" => ~imageOpened
          /\ err # "nil" =>
                /\ pc = "panicked"
                /\ panicCause = "NewWaifu2x"
                /\ src = <<>>
                /\ models = <<>>
                /\ ExecIdle
                /\ dst = <<>>
    /\ pc \notin {"main", "helper"} /\ panicCause # "NewWaifu2x" =>
          /\ modelFile.state = "ok"
          /\ imageFile.state = "ok"
          /\ models = modelFile.net
          /\ src = <<Resize(imageFile.img)>>

C7_Witness ==
    /\ pc = "panicked"
    /\ panicCause = "NewWaifu2x"
    /\ modelFile.state = "ok"
    /\ imageFile.state = "undecodable"
    /\ imageOpened

(***************************************************************************)
(* C8.  Fan-in completeness: the bias is added and the output plane is     *)
(* appended only after exactly inputCount results have been received, one  *)
(* from each input index, with nothing left in the channel or still        *)
(* running; every output plane is its bias plus the sum of the             *)
(* correlations of its input planes.                                       *)
(***************************************************************************)
C8_FanInComplete ==
    /\ (pc = "recv" /\ ~recvLoopCond(k, resCh.cap)) =>
          LET n == Min(Len(planes), Len(models[l].Weight[i + 1]))
          IN  /\ Len(got) = n
              /\ \A x \in 0..(n - 1) : \E y \in 1..Len(got) : got[y] = x
              /\ resCh.buf = <<>>
              /\ tasks = {}
    /\ pc \in {"output", "spawn", "recv"} =>
          \A n \in 1..Len(oPlanes) : oPlanes[n] = RefPlane(planes, models[l], n)

C8_Witness ==
    /\ pc = "output"
    /\ Len(oPlanes) >= 1
    /\ got = <<1, 0>>

(***************************************************************************)
(* C9.  Layer sequencing: planes is never written while a convolution task *)
(* exists; it is replaced only when every output plane of the layer has    *)
(* been computed; every task belongs to the layer being processed and      *)
(* reads a plane of the current set.                                       *)
(***************************************************************************)
C9_LayerSequencing ==
    /\ [][tasks # {} => planes' = planes]_vars
    /\ [][planes' # planes =>
             /\ tasks = {}
             /\ \/ pc = "Exec"
                \/ /\ pc = "output"
                   /\ Len(oPlanes) = fi(models[l])
                   /\ Len(planes') = Len(oPlanes)]_vars
    /\ [](\A t \in tasks :
             /\ pc \in {"spawn", "recv"}
             /\ t.l = l
             /\ t.i = i
             /\ t.plane = planes[t.j + 1])

C9_Witness ==
    /\ l = 2
    /\ Cardinality(tasks) >= 2
    /\ Running # {}

(***************************************************************************)
(* C10.  No hang: under fair scheduling a run that entered Exec completes  *)
(* (destination image assigned), exits with status 1 or panics; a task     *)
(* always finds room in the result channel for its result.                 *)
(***************************************************************************)
C10_NoHang ==
    /\ (pc = "Exec") ~> (pc \in {"done", "exit1", "panicked"})
    /\ [](Len(resCh.buf) + Cardinality({t \in tasks : t.ch = resCh.id})
             <= resCh.cap)

C10_Witness ==
    /\ pc = "recv"
    /\ k = 0
    /\ resCh.cap >= 2
    /\ Len(resCh.buf) = resCh.cap

====
